---- MODULE Spec2Model ----
(***************************************************************************)
(* Signal generation and backtest accounting of src/strategies.py:         *)
(* TradingStrategy and its three variants SMAStrategy, RSIStrategy and     *)
(* CombinedStrategy.                                                       *)
(*                                                                         *)
(* Numbers.  A pandas float is modelled as an exact rational <<n, d>>      *)
(* with d > 0 in lowest terms; <<0, 0>> is NaN and <<1, 0>>, <<-1, 0>> are *)
(* +inf and -inf, with the IEEE rules for them (x/0, 0/0, NaN             *)
(* propagation, comparisons with NaN false).  Rounding is not modelled.    *)
(* The 'signal' and 'position' columns hold whole numbers at every bar     *)
(* (after fillna(0)) and are kept as integers.                             *)
(***************************************************************************)
EXTENDS Integers, Sequences, FiniteSets

(***************************************************************************)
(* Bounds of the model.                                                    *)
(***************************************************************************)
MaxBars == 3
MaxPrice == 2
MaxWindow == 3
\* Longest series of the signal-generation specification.
MaxBarsLong == 5

Instances == {1, 2}

(***************************************************************************)
(* Float arithmetic.                                                       *)
(***************************************************************************)
NaN == <<0, 0>>
Num(k) == <<k, 1>>

Abs(a) == IF a < 0 THEN -a ELSE a
Sign(a) == IF a < 0 THEN -1 ELSE IF a > 0 THEN 1 ELSE 0

RECURSIVE Gcd(_, _)
Gcd(a, b) == IF b = 0 THEN a ELSE Gcd(b, a % b)

Norm(n, d) ==
    IF d = 0 THEN <<Sign(n), 0>>
    ELSE LET g == Gcd(Abs(n), Abs(d))
             s == Sign(d)
         IN  <<(s * n) \div g, (s * d) \div g>>

IsNaN(x) == x = NaN
IsFinite(x) == x[2] > 0

FAdd(x, y) ==
    IF IsNaN(x) \/ IsNaN(y) THEN NaN
    ELSE IF x[2] = 0 /\ y[2] = 0 THEN (IF x = y THEN x ELSE NaN)
    ELSE Norm(x[1] * y[2] + y[1] * x[2], x[2] * y[2])

FNeg(x) == <<-x[1], x[2]>>
FSub(x, y) == FAdd(x, FNeg(y))

FMul(x, y) ==
    IF IsNaN(x) \/ IsNaN(y) THEN NaN
    ELSE Norm(x[1] * y[1], x[2] * y[2])

FDiv(x, y) ==
    IF IsNaN(x) \/ IsNaN(y) THEN NaN
    ELSE Norm(x[1] * y[2], x[2] * y[1])

\* Comparisons of floats: any comparison with NaN is False.
FLt(x, y) == ~IsNaN(x) /\ ~IsNaN(y) /\ x # y /\
             (IF x[2] = 0 THEN x[1] < 0
              ELSE IF y[2] = 0 THEN y[1] > 0
              ELSE x[1] * y[2] < y[1] * x[2])
FGt(x, y) == FLt(y, x)
FLe(x, y) == ~IsNaN(x) /\ ~IsNaN(y) /\ ~FLt(y, x)
FGe(x, y) == FLe(y, x)

(***************************************************************************)
(* pandas Series operations used by the strategies; a Series is a sequence *)
(* with one entry per bar.                                                 *)
(***************************************************************************)
\* A Series given bar by bar, as the sequence of its values.
Series(f) == SubSeq(f, 1, Len(f))

\* Series.shift(1)
Shift1(c) == IF c = <<>> THEN <<>> ELSE <<NaN>> \o SubSeq(c, 1, Len(c) - 1)

\* Series.diff(): c - c.shift(1)
Diff(c) == Series([t \in 1..Len(c) |-> FSub(c[t], Shift1(c)[t])])

\* Series.pct_change(): c / c.shift(1) - 1
PctChange(c) == Series([t \in 1..Len(c) |-> FSub(FDiv(c[t], Shift1(c)[t]), Num(1))])

RECURSIVE SumRange(_, _, _)
SumRange(c, lo, hi) == IF lo > hi THEN Num(0) ELSE FAdd(SumRange(c, lo, hi - 1), c[hi])

\* Mutant of RollingMean: min_periods = 1, the mean of the bars available.
RollingMeanPartial(c, w) ==
    Series([t \in 1..Len(c) |->
        IF t < w THEN FDiv(SumRange(c, 1, t), Num(t))
        ELSE FDiv(SumRange(c, t - w + 1, t), Num(w))])

\* Series.rolling(window=w).mean(): min_periods = w, so the value is NaN
\* until w bars are available and whenever the window holds a NaN.
RollingMean(c, w) ==
    Series([t \in 1..Len(c) |->
        IF t < w THEN NaN
        ELSE FDiv(SumRange(c, t - w + 1, t), Num(w))])

\* Series.cumsum() of an integer column.
RECURSIVE IntSum(_, _)
IntSum(c, t) == IF t = 0 THEN 0 ELSE IntSum(c, t - 1) + c[t]
CumSum(c) == Series([t \in 1..Len(c) |-> IntSum(c, t)])

\* Series.cumprod(): skipna, a NaN entry stays NaN and is skipped.
RECURSIVE ProdUpTo(_, _)
ProdUpTo(c, t) ==
    IF t = 0 THEN Num(1)
    ELSE IF IsNaN(c[t]) THEN ProdUpTo(c, t - 1)
    ELSE FMul(ProdUpTo(c, t - 1), c[t])
CumProd(c) == Series([t \in 1..Len(c) |-> IF IsNaN(c[t]) THEN NaN ELSE ProdUpTo(c, t)])

FMax(x, y) == IF IsNaN(x) THEN y ELSE IF IsNaN(y) THEN x ELSE IF FLt(x, y) THEN y ELSE x
FMin(x, y) == IF IsNaN(x) THEN y ELSE IF IsNaN(y) THEN x ELSE IF FLt(y, x) THEN y ELSE x

\* Series.expanding().max(): min_periods = 1, NaN while no value was seen.
RECURSIVE MaxUpTo(_, _)
MaxUpTo(c, t) == IF t = 0 THEN NaN ELSE FMax(MaxUpTo(c, t - 1), c[t])
ExpandingMax(c) == Series([t \in 1..Len(c) |-> MaxUpTo(c, t)])

\* Series.min(): skipna, NaN for a Series with no value.
RECURSIVE MinUpTo(_, _)
MinUpTo(c, t) == IF t = 0 THEN NaN ELSE FMin(MinUpTo(c, t - 1), c[t])
SeriesMin(c) == MinUpTo(c, Len(c))

Defined(c) == {t \in 1..Len(c) : ~IsNaN(c[t])}

RECURSIVE SumDefined(_, _)
SumDefined(c, t) ==
    IF t = 0 THEN Num(0)
    ELSE IF IsNaN(c[t]) THEN SumDefined(c, t - 1)
    ELSE FAdd(SumDefined(c, t - 1), c[t])

\* Series.mean(): skipna, NaN for a Series with no value.
SeriesMean(c) ==
    IF Defined(c) = {} THEN NaN
    ELSE FDiv(SumDefined(c, Len(c)), Num(Cardinality(Defined(c))))

\* Series.std(): ddof = 1 and skipna.  Only what backtest() reads of it is
\* kept: "nan" with fewer than two values, "zero" when all values are equal
\* (the variance is exactly 0), "pos" otherwise.
SeriesStd(c) ==
    IF Cardinality(Defined(c)) < 2 THEN "nan"
    ELSE IF \A s, t \in Defined(c) : c[s] = c[t] THEN "zero"
    ELSE "pos"

ToFloat(c) == Series([t \in 1..Len(c) |-> Num(c[t])])

(***************************************************************************)
(* DataFrames.  A frame has `index` rows and the columns the strategies    *)
(* read and write; a column that was not assigned yet is <<>>.             *)
(***************************************************************************)
EmptyFrame(n) ==
    [index |-> n, Close |-> <<>>, price |-> <<>>, signal |-> <<>>, position |-> <<>>,
     short_ma |-> <<>>, long_ma |-> <<>>, rsi |-> <<>>,
     market_return |-> <<>>, strategy_return |-> <<>>,
     cumulative_market |-> <<>>, cumulative_strategy |-> <<>>,
     portfolio_value |-> <<>>]

Zeros(n) == Series([t \in 1..n |-> 0])

\* Mutant of SignalsFrameOf: self.signals is the input table itself.
SignalsFrameShared(i) == 0

\* The frame self.signals is bound to: a new frame of its own per instance.
SignalsFrameOf(i) == i

\* TradingStrategy.__init__: the body run on the frame `f` that becomes
\* self.signals, given the input table `d`.
InitSignals(f, d) ==
    [f EXCEPT !.index = d.index,
              !.price = d.Close,
              !.signal = Zeros(d.index),
              !.position = Zeros(d.index)]

(***************************************************************************)
(* generate_signals() of the three variants, as frame -> frame.            *)
(***************************************************************************)
\* signal = signal.diff(); signal.fillna(0, inplace=True)
\* The in-place fillna on the selected column is taken to write through to
\* the frame (pandas without copy-on-write), so the first bar holds 0.
DiffFillna(raw) ==
    Series([t \in 1..Len(raw) |->
        LET x == Diff(ToFloat(raw))[t] IN IF IsNaN(x) THEN 0 ELSE x[1]])

\* signal = 0; loc[short_ma > long_ma] = 1; loc[short_ma < long_ma] = -1
SMARaw(short_ma, long_ma) ==
    Series([t \in 1..Len(short_ma) |->
        IF FLt(short_ma[t], long_ma[t]) THEN -1
        ELSE IF FGt(short_ma[t], long_ma[t]) THEN 1
        ELSE 0])

SMAGenerate(st, f) ==
    LET short_ma == RollingMean(ToFloat(f.price), st.short_window)
        long_ma == RollingMean(ToFloat(f.price), st.long_window)
    IN  [f EXCEPT !.short_ma = short_ma,
                  !.long_ma = long_ma,
                  !.signal = DiffFillna(SMARaw(short_ma, long_ma))]

\* delta.where(delta > 0, 0) and -delta.where(delta < 0, 0): a NaN delta
\* fails the condition and is replaced by 0.
Gains(delta) == Series([t \in 1..Len(delta) |-> IF FGt(delta[t], Num(0)) THEN delta[t] ELSE Num(0)])
Losses(delta) == Series([t \in 1..Len(delta) |-> IF FLt(delta[t], Num(0)) THEN FNeg(delta[t]) ELSE Num(0)])

\* rs = gain / loss; rsi = 100 - (100 / (1 + rs))
RSI(price, period) ==
    LET delta == Diff(ToFloat(price))
        gain == RollingMean(Gains(delta), period)
        loss == RollingMean(Losses(delta), period)
    IN  Series([t \in 1..Len(price) |->
            FSub(Num(100), FDiv(Num(100), FAdd(Num(1), FDiv(gain[t], loss[t]))))])

\* Mutant of RSISignal: level-triggered, the previous bar is not looked at.
RSISignalLevel(rsi, oversold, overbought) ==
    Series([t \in 1..Len(rsi) |->
        IF FGt(rsi[t], Num(overbought)) THEN -1
        ELSE IF FLt(rsi[t], Num(oversold)) THEN 1
        ELSE 0])

\* signal = 0, then the buy rows are set to 1, then the sell rows to -1.
RSISignal(rsi, oversold, overbought) ==
    Series([t \in 1..Len(rsi) |->
        IF FGt(rsi[t], Num(overbought)) /\ FLe(Shift1(rsi)[t], Num(overbought)) THEN -1
        ELSE IF FLt(rsi[t], Num(oversold)) /\ FGe(Shift1(rsi)[t], Num(oversold)) THEN 1
        ELSE 0])

RSIGenerate(st, f) ==
    LET rsi == RSI(f.price, st.rsi_period)
    IN  [f EXCEPT !.rsi = rsi,
                  !.signal = RSISignal(rsi, st.oversold, st.overbought)]

\* Mutant of CombinedRaw: the sell rule is a conjunction like the buy rule.
CombinedRawSellAnd(short_ma, long_ma, rsi, oversold, overbought) ==
    Series([t \in 1..Len(rsi) |->
        IF FLt(short_ma[t], long_ma[t]) /\ FGt(rsi[t], Num(overbought)) THEN -1
        ELSE IF FGt(short_ma[t], long_ma[t]) /\ FLt(rsi[t], Num(oversold)) THEN 1
        ELSE 0])

\* signal = 0, then buy rows (short > long AND rsi < oversold) are set to 1,
\* then sell rows (short < long OR rsi > overbought) are set to -1.
CombinedRaw(short_ma, long_ma, rsi, oversold, overbought) ==
    Series([t \in 1..Len(rsi) |->
        IF FLt(short_ma[t], long_ma[t]) \/ FGt(rsi[t], Num(overbought)) THEN -1
        ELSE IF FGt(short_ma[t], long_ma[t]) /\ FLt(rsi[t], Num(oversold)) THEN 1
        ELSE 0])

CombinedGenerate(st, f) ==
    LET short_ma == RollingMean(ToFloat(f.price), st.short_window)
        long_ma == RollingMean(ToFloat(f.price), st.long_window)
        rsi == RSI(f.price, st.rsi_period)
    IN  [f EXCEPT !.short_ma = short_ma,
                  !.long_ma = long_ma,
                  !.rsi = rsi,
                  !.signal = DiffFillna(CombinedRaw(short_ma, long_ma, rsi,
                                                    st.oversold, st.overbought))]

\* Dispatch of self.generate_signals() on the class of the instance.
generate_signals(st, f) ==
    CASE st.kind = "SMA" -> SMAGenerate(st, f)
      [] st.kind = "RSI" -> RSIGenerate(st, f)
      [] OTHER -> CombinedGenerate(st, f)

(***************************************************************************)
(* backtest(): the derived columns and the metrics.                        *)
(***************************************************************************)
initial_capital == 100000

\* risk_free_rate / 252 with risk_free_rate = 0.06
DailyRiskFree == FDiv(Norm(6, 100), Num(252))

\* signal.replace(-1, 0).cumsum()
PositionColumn(signal) ==
    CumSum(Series([t \in 1..Len(signal) |-> IF signal[t] = -1 THEN 0 ELSE signal[t]]))

\* Mutant of StrategyReturn: the position decided at the bar earns its return.
StrategyReturnSameBar(position, market_return) ==
    Series([t \in 1..Len(position) |-> FMul(ToFloat(position)[t], market_return[t])])

\* position.shift(1) * market_return
StrategyReturn(position, market_return) ==
    Series([t \in 1..Len(position) |-> FMul(Shift1(ToFloat(position))[t], market_return[t])])

\* (1 + r).cumprod()
Cumulative(r) == CumProd(Series([t \in 1..Len(r) |-> FAdd(Num(1), r[t])]))

\* Lines 43-55: the columns backtest() assigns, in order.
BacktestColumns(f) ==
    LET position == PositionColumn(f.signal)
        market_return == PctChange(ToFloat(f.price))
        strategy_return == StrategyReturn(position, market_return)
        cumulative_strategy == Cumulative(strategy_return)
    IN  [f EXCEPT !.position = position,
                  !.market_return = market_return,
                  !.strategy_return = strategy_return,
                  !.cumulative_market = Cumulative(market_return),
                  !.cumulative_strategy = cumulative_strategy,
                  !.portfolio_value =
                      Series([t \in 1..f.index |->
                          FMul(Num(initial_capital), cumulative_strategy[t])])]

\* len(self.signals[self.signals['strategy_return'] > 0])
WinningTrades(f) == Cardinality({t \in 1..f.index : FGt(f.strategy_return[t], Num(0))})
\* len(self.signals[self.signals['signal'] != 0])
TotalTrades(f) == Cardinality({t \in 1..f.index : f.signal[t] # 0})

WinRate(f) ==
    IF TotalTrades(f) > 0
    THEN FMul(FDiv(Num(WinningTrades(f)), Num(TotalTrades(f))), Num(100))
    ELSE Num(0)

\* drawdown = (cumulative - running_max) / running_max; drawdown.min() * 100
MaxDrawdown(f) ==
    LET cumulative == f.cumulative_strategy
        running_max == ExpandingMax(cumulative)
        drawdown == Series([t \in 1..f.index |->
                        FDiv(FSub(cumulative[t], running_max[t]), running_max[t])])
    IN  FMul(SeriesMin(drawdown), Num(100))

ExcessReturns(f) == Series([t \in 1..f.index |-> FSub(f.strategy_return[t], DailyRiskFree)])

\* np.sqrt(252) * mean / std if std != 0 else 0.  The value is irrational;
\* what is kept of it is whether it is NaN and, when not, its sign (the sign
\* of the mean: the std is positive).  NaN != 0 is True, so a NaN std takes
\* the first branch and the ratio is NaN.
SharpeRatio(f) ==
    LET excess_returns == ExcessReturns(f)
        std == SeriesStd(excess_returns)
    IN  IF std = "zero" THEN [nan |-> FALSE, sign |-> 0]
        ELSE IF std = "nan" \/ IsNaN(SeriesMean(excess_returns))
             THEN [nan |-> TRUE, sign |-> 0]
        ELSE [nan |-> FALSE, sign |-> Sign(SeriesMean(excess_returns)[1])]

\* Lines 58-84 on a frame with at least one row: the returned dict.
\* 'signals_df' is the reference self.signals (a frame id).
Metrics(f, ref) ==
    LET final_value == f.portfolio_value[f.index]
    IN  [total_return |->
             FMul(FDiv(FSub(final_value, Num(initial_capital)), Num(initial_capital)),
                  Num(100)),
         win_rate |-> WinRate(f),
         max_drawdown |-> MaxDrawdown(f),
         sharpe_ratio |-> SharpeRatio(f),
         final_value |-> final_value,
         total_trades |-> TotalTrades(f),
         signals_df |-> ref]

NoReturn ==
    [total_return |-> NaN, win_rate |-> NaN, max_drawdown |-> NaN,
     sharpe_ratio |-> [nan |-> TRUE, sign |-> 0], final_value |-> NaN,
     total_trades |-> 0, signals_df |-> 0]

\* signal_map.get(latest_signal, 'HOLD')
SignalLabel(latest_signal) ==
    IF latest_signal = 1 THEN "BUY" ELSE IF latest_signal = -1 THEN "SELL" ELSE "HOLD"

(***************************************************************************)
(* State.                                                                  *)
(*   frames     the DataFrames in memory: frames[0] is the input price     *)
(*              table `data`, frames[i] the frame instance i allocates     *)
(*   self       the strategy objects: class, parameters, self.data (a      *)
(*              copy) and self.signals (a reference into frames)           *)
(*   ret        what the last backtest() of each instance returned         *)
(*   cur        what the last get_current_signal() returned                *)
(*   raised     the exception the last call on the instance raised, or ""  *)
(*   runs       backtest() calls made on the instance: 0, 1, or 2 for two  *)
(*              or more                                                    *)
(*   generated  generate_signals() has run on the instance                 *)
(*   first      history: return value and frame of the first backtest()    *)
(*   fresh_label, gen_label                                                *)
(*              history: the label get_current_signal() returned when      *)
(*              called before / after generate_signals() had run           *)
(***************************************************************************)
VARIABLES frames, self, ret, cur, raised, runs, generated, first, fresh_label, gen_label

vars == <<frames, self, ret, cur, raised, runs, generated, first, fresh_label, gen_label>>

\* Window lengths and the RSI period are drawn from the positive integers:
\* rolling() with a negative window raises inside pandas, a case left out.
Windows == 1..MaxWindow
\* (oversold, overbought) of RSIStrategy: the defaults and the pair swapped;
\* CombinedStrategy is constructed with the defaults.
Thresholds == {<<30, 70>>, <<70, 30>>}

PriceSeries == UNION {[1..n -> 1..MaxPrice] : n \in 0..MaxBars}

NoStrategy ==
    [constructed |-> FALSE, kind |-> "", short_window |-> 0, long_window |-> 0,
     rsi_period |-> 0, oversold |-> 0, overbought |-> 0,
     data |-> EmptyFrame(0), signals |-> 0]

NoSignal == [signal |-> "", price |-> 0, date |-> 0]

\* The state once the price table is loaded from one of the series `S`.
Loaded(S) ==
    /\ \E close \in S :
          frames = [r \in {0} \cup Instances |->
                      IF r = 0 THEN [EmptyFrame(Len(close)) EXCEPT !.Close = close]
                      ELSE EmptyFrame(0)]
    /\ self = [i \in Instances |-> NoStrategy]
    /\ ret = [i \in Instances |-> NoReturn]
    /\ cur = [i \in Instances |-> NoSignal]
    /\ raised = [i \in Instances |-> ""]
    /\ runs = [i \in Instances |-> 0]
    /\ generated = [i \in Instances |-> FALSE]
    /\ first = [i \in Instances |-> [ret |-> NoReturn, frame |-> EmptyFrame(0)]]
    /\ fresh_label = [i \in Instances |-> ""]
    /\ gen_label = [i \in Instances |-> ""]

Init == Loaded(PriceSeries)

\* self.signals of instance i.
Signals(i) == frames[self[i].signals]

\* TradingStrategy.__init__(data) followed by the subclass's assignments of
\* its parameters; no parameter is checked.
Construct(i, st) ==
    /\ ~self[i].constructed
    /\ LET r == SignalsFrameOf(i)
           new == [frames[r] EXCEPT !.index = frames[0].index]
       IN  /\ frames' = [frames EXCEPT ![r] = InitSignals(new, frames[0])]
           /\ self' = [self EXCEPT ![i] =
                          [st EXCEPT !.constructed = TRUE,
                                     !.data = frames[0],
                                     !.signals = r]]
    /\ UNCHANGED <<ret, cur, raised, runs, generated, first, fresh_label, gen_label>>

\* The parameter sets the constructors are called with.
SMAParams ==
    {[NoStrategy EXCEPT !.kind = "SMA", !.short_window = sw, !.long_window = lw] :
        sw \in Windows, lw \in Windows}
RSIParams ==
    {[NoStrategy EXCEPT !.kind = "RSI", !.rsi_period = p,
                        !.oversold = th[1], !.overbought = th[2]] :
        p \in Windows, th \in Thresholds}
CombinedParams ==
    {[st EXCEPT !.kind = "Combined", !.rsi_period = p,
                !.oversold = 30, !.overbought = 70] :
        st \in SMAParams, p \in Windows}

\* The parameter sets the data model allows: SMA 0 < short < long; RSI
\* period > 0 and 0 < oversold < overbought < 100; Combined both.
ValidSMA(st) == 0 < st.short_window /\ st.short_window < st.long_window
ValidRSI(st) == /\ st.rsi_period > 0
                /\ 0 < st.oversold /\ st.oversold < st.overbought /\ st.overbought < 100
Valid(st) ==
    CASE st.kind = "SMA" -> ValidSMA(st)
      [] st.kind = "RSI" -> ValidRSI(st)
      [] OTHER -> ValidSMA(st) /\ ValidRSI(st)

SMAStrategy(i, P) == \E st \in P : Construct(i, st)
RSIStrategy(i, P) == \E st \in P : Construct(i, st)
CombinedStrategy(i, P) == \E st \in P : Construct(i, st)

\* A direct call of generate_signals().
GenerateSignals(i) ==
    /\ self[i].constructed
    /\ frames' = [frames EXCEPT ![self[i].signals] = generate_signals(self[i], @)]
    /\ generated' = [generated EXCEPT ![i] = TRUE]
    /\ raised' = [raised EXCEPT ![i] = ""]
    /\ UNCHANGED <<self, ret, cur, runs, first, fresh_label, gen_label>>

\* backtest(): on an empty frame iloc[-1] of line 58 raises IndexError after
\* the columns were assigned.  Otherwise `m` is the dict returned.
BacktestReturns(i, f, m) ==
    /\ frames' = [frames EXCEPT ![self[i].signals] = f]
    /\ IF f.index = 0
       THEN /\ raised' = [raised EXCEPT ![i] = "IndexError"]
            /\ UNCHANGED <<ret, first>>
       ELSE /\ raised' = [raised EXCEPT ![i] = ""]
            /\ ret' = [ret EXCEPT ![i] = m]
            /\ first' = IF runs[i] = 0
                        THEN [first EXCEPT ![i] = [ret |-> m, frame |-> f]]
                        ELSE first
    /\ runs' = [runs EXCEPT ![i] = IF @ < 2 THEN @ + 1 ELSE @]
    /\ generated' = [generated EXCEPT ![i] = TRUE]
    /\ UNCHANGED <<self, cur, fresh_label, gen_label>>

Backtest(i) ==
    /\ self[i].constructed
    /\ \E f \in {BacktestColumns(generate_signals(self[i], Signals(i)))} :
          \E m \in {IF f.index = 0 THEN NoReturn ELSE Metrics(f, self[i].signals)} :
              BacktestReturns(i, f, m)

\* get_current_signal(): generate_signals() is called only when the frame
\* has no rows (`lazy`); iloc[-1] on a frame with no rows raises IndexError.
CurrentSignalReturns(i, lazy, f) ==
    /\ frames' = [frames EXCEPT ![self[i].signals] = f]
    /\ generated' = [generated EXCEPT ![i] = @ \/ lazy]
    /\ IF f.index = 0
       THEN /\ raised' = [raised EXCEPT ![i] = "IndexError"]
            /\ UNCHANGED <<cur, fresh_label, gen_label>>
       ELSE /\ raised' = [raised EXCEPT ![i] = ""]
            /\ cur' = [cur EXCEPT ![i] =
                          [signal |-> SignalLabel(f.signal[f.index]),
                           price |-> f.price[f.index],
                           date |-> f.index]]
            /\ fresh_label' = IF generated[i] THEN fresh_label
                              ELSE [fresh_label EXCEPT ![i] = SignalLabel(f.signal[f.index])]
            /\ gen_label' = IF generated[i]
                            THEN [gen_label EXCEPT ![i] = SignalLabel(f.signal[f.index])]
                            ELSE gen_label
    /\ UNCHANGED <<self, ret, runs, first>>

GetCurrentSignal(i) ==
    /\ self[i].constructed
    /\ \E lazy \in {Signals(i).index = 0} :
          \E f \in {IF lazy THEN generate_signals(self[i], Signals(i)) ELSE Signals(i)} :
              CurrentSignalReturns(i, lazy, f)

\* One strategy object and the calls a caller can make on it.
Next ==
    \/ SMAStrategy(1, SMAParams)
    \/ RSIStrategy(1, RSIParams)
    \/ CombinedStrategy(1, CombinedParams)
    \/ GenerateSignals(1)
    \/ Backtest(1)
    \/ GetCurrentSignal(1)

Spec == Init /\ [][Next]_vars

\* Two strategy objects built from the same input table, with parameters
\* the data model allows, and their backtest() calls in any order.
ValidOnly(P) == {st \in P : Valid(st)}

NextMulti ==
    \/ \E i \in Instances : SMAStrategy(i, ValidOnly(SMAParams))
    \/ RSIStrategy(1, ValidOnly(RSIParams))
    \/ CombinedStrategy(1, ValidOnly(CombinedParams))
    \/ \E i \in Instances : Backtest(i)

SpecMulti == Init /\ [][NextMulti]_vars

\* Signal generation alone, on longer series: one strategy object with
\* parameters the data model allows (for RSIStrategy also the swapped
\* thresholds), and generate_signals() called on it.  CombinedStrategy is
\* also constructed with overbought = 50, a value RSI takes exactly.
LongPriceSeries == UNION {[1..n -> 1..MaxPrice] : n \in 0..MaxBarsLong}

CombinedParamsLong ==
    {[st EXCEPT !.overbought = ob] : st \in CombinedParams, ob \in {50, 70}}

InitLong == Loaded(LongPriceSeries)

NextGenerate ==
    \/ SMAStrategy(1, ValidOnly(SMAParams))
    \/ RSIStrategy(1, RSIParams)
    \/ CombinedStrategy(1, ValidOnly(CombinedParamsLong))
    \/ GenerateSignals(1)

SpecGenerate == InitLong /\ [][NextGenerate]_vars

(***************************************************************************)
(* Vocabulary of the properties.                                           *)
(***************************************************************************)
\* backtest() has returned a result on a non-empty series.
Returned(i) == self[i].constructed /\ runs[i] > 0 /\ Signals(i).index > 0

FloatDefined(x) == IsFinite(x)

(***************************************************************************)
(* C1.  After backtest(), on every variant and every price series, the     *)
(* position of every bar is 0 or 1: never negative, never above 1.         *)
(* The code does not keep it: replace(-1, 0).cumsum() adds up a +1 for     *)
(* every buy and the -2 / +2 steps of the SMA difference.                  *)
(***************************************************************************)
C1_PositionZeroOrOne ==
    \A i \in Instances :
        Returned(i) /\ Valid(self[i]) =>
            \A t \in 1..Signals(i).index : Signals(i).position[t] \in {0, 1}

(***************************************************************************)
(* C2.  After generate_signals(), for each variant, the signal of every    *)
(* bar is one of -1, 0, +1, also where the raw state flips directly        *)
(* between +1 and -1.  The code emits the difference of the raw state,     *)
(* which is -2 or +2 at such a bar.                                        *)
(***************************************************************************)
C2_SignalInRange ==
    \A i \in Instances :
        self[i].constructed /\ generated[i] /\ Valid(self[i]) =>
            \A t \in 1..Signals(i).index : Signals(i).signal[t] \in {-1, 0, 1}

(***************************************************************************)
(* C3.  No look-ahead: after backtest(), for every bar t >= 1 (the second  *)
(* bar onwards), strategy_return(t) = position(t-1) * market_return(t);    *)
(* in particular it is 0 when the position entering bar t is 0, whatever   *)
(* the signal and the price move at bar t.                                 *)
(***************************************************************************)
C3_NoLookAhead ==
    \A i \in Instances :
        Returned(i) =>
            \A t \in 2..Signals(i).index :
                /\ Signals(i).strategy_return[t] =
                      FMul(Num(Signals(i).position[t - 1]), Signals(i).market_return[t])
                /\ Signals(i).position[t - 1] = 0 =>
                      Signals(i).strategy_return[t] = Num(0)

\* A buy fires at a bar whose price doubles while the position entering the
\* bar is flat, and the bar's strategy return is 0.
C3_Witness ==
    \E i \in Instances :
        /\ Returned(i)
        /\ \E t \in 2..Signals(i).index :
              /\ Signals(i).position[t - 1] = 0
              /\ Signals(i).signal[t] = 1
              /\ Signals(i).position[t] = 1
              /\ Signals(i).price[t] = 2 * Signals(i).price[t - 1]
              /\ Signals(i).market_return[t] = Num(1)
              /\ Signals(i).strategy_return[t] = Num(0)

(***************************************************************************)
(* C4.  For every non-empty price series and every valid parameter set,    *)
(* backtest() returns without raising and total_return, win_rate,          *)
(* max_drawdown, sharpe_ratio, final_value and total_trades are defined    *)
(* numbers.  On a series of one bar the code returns NaN for four of them. *)
(***************************************************************************)
C4_MetricsDefined ==
    \A i \in Instances :
        Returned(i) /\ Valid(self[i]) =>
            /\ raised[i] = ""
            /\ FloatDefined(ret[i].total_return)
            /\ FloatDefined(ret[i].win_rate)
            /\ FloatDefined(ret[i].max_drawdown)
            /\ ~ret[i].sharpe_ratio.nan
            /\ FloatDefined(ret[i].final_value)
            /\ ret[i].total_trades \in Nat

(***************************************************************************)
(* C5.  A strategy with invalid parameters (a window or period <= 0,       *)
(* oversold >= overbought, short_window >= long_window) is rejected at     *)
(* construction: no constructed strategy has invalid parameters.  The      *)
(* constructors check nothing.                                             *)
(***************************************************************************)
C5_InvalidRejected ==
    \A i \in Instances : self[i].constructed => Valid(self[i])

(***************************************************************************)
(* C6.  backtest() reports win_rate = 0 whenever total_trades = 0, and     *)
(* sharpe_ratio = 0 whenever the standard deviation of the excess returns  *)
(* is 0 or the run has no trades; neither is NaN.  With fewer than three   *)
(* bars the standard deviation is NaN, which is != 0, and the ratio is NaN.*)
(***************************************************************************)
SharpeIsZero(m) == ~m.sharpe_ratio.nan /\ m.sharpe_ratio.sign = 0

C6_ZeroFallbacks ==
    \A i \in Instances :
        Returned(i) /\ Valid(self[i]) =>
            /\ ret[i].total_trades = 0 =>
                  ret[i].win_rate = Num(0) /\ SharpeIsZero(ret[i])
            /\ SeriesStd(ExcessReturns(Signals(i))) = "zero" => SharpeIsZero(ret[i])

(***************************************************************************)
(* C7.  get_current_signal() on a fresh strategy over a non-empty series   *)
(* generates the signals first: the label it returns is the label a call   *)
(* made after generate_signals() returns.  The code generates only when    *)
(* the frame has no rows, so a fresh call reads the initial signal 0.      *)
(***************************************************************************)
C7_LazyGeneration ==
    \A i \in Instances :
        Valid(self[i]) /\ fresh_label[i] # "" /\ gen_label[i] # "" =>
            fresh_label[i] = gen_label[i]

(***************************************************************************)
(* C8.  When a rolling-window parameter is greater than or equal to the    *)
(* number of bars (window = series length included), generate_signals()    *)
(* raises nothing and emits signal 0 at every bar.  As stated it fails:    *)
(* with window = length the rolling mean is defined at the last bar.       *)
(***************************************************************************)
AllZeroSignal(i) ==
    /\ Signals(i).index > 0 => raised[i] = ""
    /\ \A t \in 1..Signals(i).index : Signals(i).signal[t] = 0

WindowAtLeast(st, n) ==
    CASE st.kind = "SMA" -> st.short_window >= n \/ st.long_window >= n
      [] st.kind = "RSI" -> st.rsi_period >= n
      [] OTHER -> st.short_window >= n \/ st.long_window >= n \/ st.rsi_period >= n

C8_WindowAtLeastLength ==
    \A i \in Instances :
        self[i].constructed /\ generated[i] /\ Valid(self[i])
            /\ WindowAtLeast(self[i], Signals(i).index) => AllZeroSignal(i)

(***************************************************************************)
(* C8 as amended.  generate_signals() raises nothing and emits signal 0 at *)
(* every bar when, for SMA-crossover, a window is strictly greater than    *)
(* the number of bars; for RSI, the period is greater than or equal to the *)
(* number of bars; for Combined, an SMA window and the RSI period are both *)
(* strictly greater than the number of bars.                               *)
(***************************************************************************)
WindowAbove(st, n) ==
    CASE st.kind = "SMA" -> st.short_window > n \/ st.long_window > n
      [] st.kind = "RSI" -> st.rsi_period >= n
      [] OTHER -> (st.short_window > n \/ st.long_window > n) /\ st.rsi_period > n

C8_WindowAboveLength ==
    \A i \in Instances :
        self[i].constructed /\ generated[i]
            /\ WindowAbove(self[i], Signals(i).index) => AllZeroSignal(i)

\* SMA(1, 3) over the two bars 1, 2 has generated its signals.
C8_Witness ==
    \E i \in Instances :
        /\ self[i].constructed /\ generated[i]
        /\ self[i].kind = "SMA" /\ self[i].short_window = 1 /\ self[i].long_window = 3
        /\ Signals(i).price = <<1, 2>>
        /\ Signals(i).signal = <<0, 0>>

(***************************************************************************)
(* C9.  max_drawdown returned by backtest() is <= 0 for every price series *)
(* and signal stream, and is 0 whenever cumulative_strategy never          *)
(* decreases.  On a series of one bar the code returns NaN.                *)
(***************************************************************************)
NonDecreasing(c) ==
    \A s, t \in Defined(c) : s < t => FLe(c[s], c[t])

C9_DrawdownNonPositive ==
    \A i \in Instances :
        Returned(i) /\ Valid(self[i]) =>
            /\ FLe(ret[i].max_drawdown, Num(0))
            /\ NonDecreasing(Signals(i).cumulative_strategy) =>
                  ret[i].max_drawdown = Num(0)

(***************************************************************************)
(* C10.  Backtest runs are independent: a second backtest() on the same    *)
(* instance returns the metrics and the signal, position and return        *)
(* columns of the first, the result of an instance is not changed by runs  *)
(* of another instance built from the same input table, instances of the   *)
(* same class and parameters get the same result, and the input table is   *)
(* left as it was.                                                         *)
(***************************************************************************)
SameStrategy(a, b) ==
    [a EXCEPT !.signals = 0, !.data = EmptyFrame(0)] =
    [b EXCEPT !.signals = 0, !.data = EmptyFrame(0)]

C10_RunsIndependent ==
    /\ \A i \in Instances :
          Returned(i) =>
              /\ ret[i] = first[i].ret
              /\ frames[ret[i].signals_df] = first[i].frame
    /\ \A i, j \in Instances :
          Returned(i) /\ Returned(j) /\ SameStrategy(self[i], self[j]) =>
              /\ [ret[i] EXCEPT !.signals_df = 0] = [ret[j] EXCEPT !.signals_df = 0]
              /\ Signals(i) = Signals(j)
    /\ frames[0] = [EmptyFrame(frames[0].index) EXCEPT !.Close = frames[0].Close]

\* Instance 1 has run twice and instance 2, with other parameters and
\* another result, has run too.
C10_Witness ==
    /\ Returned(1) /\ Returned(2)
    /\ runs[1] = 2 /\ runs[2] >= 1
    /\ ~SameStrategy(self[1], self[2])
    /\ ret[1].total_return # ret[2].total_return
    /\ Signals(1).signal # Signals(2).signal

(***************************************************************************)
(* C11.  In backtest() a sell signal closes the position: at every bar     *)
(* whose signal is -1 the position is 0, whether a position was open       *)
(* before the bar or not, and total_trades counts every bar with a nonzero *)
(* signal, such a sell included.  The code replaces -1 by 0 before the     *)
(* cumulative sum, so a sell leaves an open position open.                 *)
(***************************************************************************)
C11_SellClosesPosition ==
    \A i \in Instances :
        Returned(i) /\ Valid(self[i]) =>
            /\ \A t \in 1..Signals(i).index :
                  Signals(i).signal[t] = -1 => Signals(i).position[t] = 0
            /\ ret[i].total_trades =
                  Cardinality({t \in 1..Signals(i).index : Signals(i).signal[t] # 0})

(***************************************************************************)
(* C15.  SMA-crossover: over every contiguous window of bars that holds as *)
(* many golden-cross bars (signal > 0) as death-cross bars (signal < 0),   *)
(* the emitted signals of the window sum to 0.  The code emits +2 and -2   *)
(* where the trend flips directly, so a +2 and a -1 do not cancel.         *)
(***************************************************************************)
C15_BalancedWindowSumsToZero ==
    \A i \in Instances :
        self[i].constructed /\ generated[i] /\ self[i].kind = "SMA" /\ Valid(self[i]) =>
            \A a \in 1..Signals(i).index : \A b \in a..Signals(i).index :
                Cardinality({t \in a..b : Signals(i).signal[t] > 0}) =
                Cardinality({t \in a..b : Signals(i).signal[t] < 0})
                    => IntSum(Signals(i).signal, b) - IntSum(Signals(i).signal, a - 1) = 0

(***************************************************************************)
(* C16.  RSI and Combined: at every bar with a complete rolling window     *)
(* whose average loss is exactly 0, the average gain being positive or 0   *)
(* (constant prices), RSI is 100 and generate_signals() raises nothing.    *)
(* The windows looked at are those made of price changes only (the first   *)
(* bar has none), where the average loss is 0 exactly when no price of the *)
(* window is below its predecessor.  The code divides gain by loss without *)
(* a special case: 0 / 0 leaves RSI undefined on a flat window.            *)
(***************************************************************************)
C16_RSIZeroLossIsHundred ==
    \A i \in Instances :
        self[i].constructed /\ generated[i] /\ self[i].kind \in {"RSI", "Combined"}
        /\ Valid(self[i]) /\ Signals(i).index > 0 =>
            /\ raised[i] = ""
            /\ \A t \in (self[i].rsi_period + 1)..Signals(i).index :
                  (\A k \in (t - self[i].rsi_period + 1)..t :
                        Signals(i).price[k] >= Signals(i).price[k - 1])
                      => Signals(i).rsi[t] = Num(100)

\* The part of C16 the code keeps: with a positive average gain and an
\* average loss of 0 the division gives +inf and RSI is 100.
RSIHundredOnRisingWindow ==
    \A i \in Instances :
        self[i].constructed /\ generated[i] /\ self[i].kind \in {"RSI", "Combined"}
        /\ Signals(i).index > 0 =>
            \A t \in (self[i].rsi_period + 1)..Signals(i).index :
                  ((\A k \in (t - self[i].rsi_period + 1)..t :
                        Signals(i).price[k] >= Signals(i).price[k - 1])
                   /\ Signals(i).price[t] > Signals(i).price[t - self[i].rsi_period])
                      => Signals(i).rsi[t] = Num(100)

(***************************************************************************)
(* C12.  SMA-crossover, no-crossing invariant: for every two consecutive   *)
(* bars t-1, t at which short MA and long MA are both defined and equal,   *)
(* the emitted signal is 0 at bar t-1 and at bar t, whatever the trend     *)
(* was before bar t-1.  The code emits the difference of the raw trend     *)
(* state, so the bar at which the averages become equal after a trend      *)
(* carries a signal.                                                       *)
(***************************************************************************)
MAsEqualAt(f, t) ==
    IsFinite(f.short_ma[t]) /\ IsFinite(f.long_ma[t]) /\ f.short_ma[t] = f.long_ma[t]

C12_NoCrossingNoSignal ==
    \A i \in Instances :
        self[i].constructed /\ generated[i] /\ self[i].kind = "SMA" /\ Valid(self[i]) =>
            \A t \in 2..Signals(i).index :
                MAsEqualAt(Signals(i), t - 1) /\ MAsEqualAt(Signals(i), t) =>
                    Signals(i).signal[t - 1] = 0 /\ Signals(i).signal[t] = 0

\* The half of C12 the code keeps: no signal at the second of the two bars.
NoSignalAtSecondEqualBar ==
    \A i \in Instances :
        self[i].constructed /\ generated[i] /\ self[i].kind = "SMA" =>
            \A t \in 2..Signals(i).index :
                MAsEqualAt(Signals(i), t - 1) /\ MAsEqualAt(Signals(i), t) =>
                    Signals(i).signal[t] = 0

(***************************************************************************)
(* C13.  RSIStrategy is edge-triggered: in every run of consecutive bars   *)
(* whose RSI is below oversold at most one bar emits +1, and a bar that    *)
(* emits +1 is the first of its run, with the previous bar's RSI defined   *)
(* and >= oversold; in the same way at most one bar emits -1 in a run of   *)
(* bars with RSI above overbought, the first, after a bar with RSI defined *)
(* and <= overbought.                                                      *)
(***************************************************************************)
Below(f, t, th) == IsFinite(f.rsi[t]) /\ f.rsi[t][1] < th * f.rsi[t][2]
Above(f, t, th) == IsFinite(f.rsi[t]) /\ f.rsi[t][1] > th * f.rsi[t][2]

C13_RSIEdgeTriggered ==
    \A i \in Instances :
        self[i].constructed /\ generated[i] /\ self[i].kind = "RSI" =>
            LET f == Signals(i)
                os == self[i].oversold
                ob == self[i].overbought
            IN  /\ \A t \in 1..f.index :
                      /\ f.signal[t] = 1 =>
                            /\ Below(f, t, os)
                            /\ t > 1 /\ IsFinite(f.rsi[t - 1]) /\ ~Below(f, t - 1, os)
                      /\ f.signal[t] = -1 =>
                            /\ Above(f, t, ob)
                            /\ t > 1 /\ IsFinite(f.rsi[t - 1]) /\ ~Above(f, t - 1, ob)
                /\ \A a \in 1..f.index : \A b \in a..f.index :
                      /\ (\A t \in a..b : Below(f, t, os)) =>
                            Cardinality({t \in a..b : f.signal[t] = 1}) <= 1
                      /\ (\A t \in a..b : Above(f, t, ob)) =>
                            Cardinality({t \in a..b : f.signal[t] = -1}) <= 1

\* RSI falls from at or above oversold to below it and stays below for a
\* second bar: the first bar of the run emits +1, the second emits 0.
C13_Witness ==
    \E i \in Instances :
        /\ self[i].constructed /\ generated[i] /\ self[i].kind = "RSI" /\ Valid(self[i])
        /\ \E t \in 2..(Signals(i).index - 1) :
              /\ IsFinite(Signals(i).rsi[t - 1]) /\ ~Below(Signals(i), t - 1, self[i].oversold)
              /\ Below(Signals(i), t, self[i].oversold)
              /\ Below(Signals(i), t + 1, self[i].oversold)
              /\ Signals(i).signal[t] = 1
              /\ Signals(i).signal[t + 1] = 0

(***************************************************************************)
(* C14.  CombinedStrategy: at a bar where short MA > long MA and RSI is    *)
(* exactly equal to overbought the sell rule applies, and a sell signal    *)
(* (a negative signal) is emitted at that bar when the raw state of the    *)
(* previous bar was not already sell.  The sell rule of the code is        *)
(* rsi > overbought, strictly, so at equality the raw state is not sell.   *)
(***************************************************************************)
Bullish(f, t) ==
    /\ IsFinite(f.short_ma[t]) /\ IsFinite(f.long_ma[t])
    /\ f.short_ma[t][1] * f.long_ma[t][2] > f.long_ma[t][1] * f.short_ma[t][2]
Bearish(f, t) ==
    /\ IsFinite(f.short_ma[t]) /\ IsFinite(f.long_ma[t])
    /\ f.short_ma[t][1] * f.long_ma[t][2] < f.long_ma[t][1] * f.short_ma[t][2]
\* The raw state of bar t was sell: bearish averages or RSI above overbought.
WasSell(f, t, ob) == Bearish(f, t) \/ Above(f, t, ob)

C14_SellAtOverbought ==
    \A i \in Instances :
        self[i].constructed /\ generated[i] /\ self[i].kind = "Combined"
        /\ Valid(self[i]) =>
            \A t \in 2..Signals(i).index :
                (/\ Bullish(Signals(i), t)
                 /\ Signals(i).rsi[t] = Num(self[i].overbought)
                 /\ ~WasSell(Signals(i), t - 1, self[i].overbought))
                    => Signals(i).signal[t] < 0

(***************************************************************************)
(* C14, as amended.  CombinedStrategy: at a bar where short MA > long MA   *)
(* and RSI is strictly above overbought the sell rule applies, and a       *)
(* negative signal is emitted at that bar when the raw state of the        *)
(* previous bar was not already sell.                                      *)
(***************************************************************************)
C14_SellAboveOverbought ==
    \A i \in Instances :
        self[i].constructed /\ generated[i] /\ self[i].kind = "Combined"
        /\ Valid(self[i]) =>
            \A t \in 2..Signals(i).index :
                (/\ Bullish(Signals(i), t)
                 /\ Above(Signals(i), t, self[i].overbought)
                 /\ ~WasSell(Signals(i), t - 1, self[i].overbought))
                    => Signals(i).signal[t] < 0

\* A bullish bar with RSI above overbought, after a bar whose raw state was
\* not sell, carries a negative signal.
C14_Witness ==
    \E i \in Instances :
        /\ self[i].constructed /\ generated[i] /\ self[i].kind = "Combined"
        /\ Valid(self[i])
        /\ \E t \in 2..Signals(i).index :
              /\ Bullish(Signals(i), t)
              /\ Above(Signals(i), t, self[i].overbought)
              /\ ~WasSell(Signals(i), t - 1, self[i].overbought)
              /\ Signals(i).signal[t] < 0

====
